---- MODULE Spec2Model ----
(***************************************************************************)
(* A model of the Apex geometry kernel: Point2D, the Polygon container     *)
(* (a Vec<Point2D> plus a SyncStatus tag) and the translate operations     *)
(* translate_polygon_st / translate_polygon_mt.                            *)
(***************************************************************************)
EXTENDS Integers, Sequences, FiniteSets, TLC

(***************************************************************************)
(* Numeric model (coordinate.rs).  Coordinate is i32.                      *)
(***************************************************************************)
MaxCoord == 2147483647

MinCoord == -MaxCoord - 1

\* The fixed floor of the chunk size in translate_polygon_mt.
MinChunk == 10000

(***************************************************************************)
(* Bounds of the model.                                                    *)
(***************************************************************************)
\* Largest value of rayon::current_num_threads().
MaxThreads == 2

\* Number of public operations performed on one polygon after construction.
MaxOps == 2

\* Largest capacity asked of with_capacity and largest reserve(additional).
MaxCap == 1

\* Largest ordinary size of the thread pool tried on the chunk size alone.
MaxPool == 4

\* Largest number of vertices the machine is taken to have memory for in
\* every run; whether a larger request is granted depends on the machine
\* and on the limits it runs under.
HeapSure == 16384

(***************************************************************************)
(* i32 arithmetic.  `a + b` on Coordinate: with overflow checks compiled   *)
(* in (the default of the dev and test profiles) an overflowing addition   *)
(* panics; without them (the default of the release profile) it wraps.     *)
(* The sums are computed without leaving the 32-bit range.                 *)
(***************************************************************************)
Overflows(a, b) ==
    \/ (b > 0 /\ a > MaxCoord - b)
    \/ (b < 0 /\ a < MinCoord - b)

WrapAdd(a, b) ==
    IF b > 0 /\ a > MaxCoord - b THEN (a + MinCoord) + (b + MinCoord)
    ELSE IF b < 0 /\ a < MinCoord - b THEN (a - MinCoord) + (b - MinCoord)
    ELSE a + b

(***************************************************************************)
(* 64-bit numbers.  A usize (a capacity or a number of vertices asked for) *)
(* and an Area (i64) can exceed the integers at hand: each is held as four *)
(* 16-bit limbs, the least significant first.                              *)
(***************************************************************************)
LimbBase == 65536

\* The limbs of a + b + carry, limb by limb; the carry out of the last limb
\* is dropped.
RECURSIVE LimbsAdd(_, _, _)
LimbsAdd(a, b, carry) ==
    IF a = << >> THEN << >>
    ELSE LET t == Head(a) + Head(b) + carry
         IN  <<t % LimbBase>> \o LimbsAdd(Tail(a), Tail(b), t \div LimbBase)

Max(a, b) == IF a >= b THEN a ELSE b

Min(a, b) == IF a <= b THEN a ELSE b

\* The usize of the integer n, 0 <= n < 2^31.
Usize(n) == <<n % LimbBase, (n \div LimbBase) % LimbBase, 0, 0>>

\* usize::MAX
UsizeMax == <<LimbBase - 1, LimbBase - 1, LimbBase - 1, LimbBase - 1>>

\* The usize s is below 2^31, and then Value(s) is the integer it holds.
Fits(s) == s[4] = 0 /\ s[3] = 0 /\ s[2] < LimbBase \div 2

Value(s) == s[1] + LimbBase * s[2]

\* a < b, for unsigned numbers of as many limbs each.
LimbsLess(a, b) ==
    \E i \in DOMAIN a : a[i] < b[i] /\ \A j \in DOMAIN a : j > i => a[j] = b[j]

LimbsMax(a, b) == IF LimbsLess(a, b) THEN b ELSE a

\* Layout::array::<Point2D>(s) fails: s vertices of 8 bytes are more than
\* isize::MAX bytes, that is s >= 2^60.
LayoutOverflows(s) == s[4] >= LimbBase \div 16

\* What the allocator can answer when asked for room for s vertices: it
\* grants every request up to HeapSure vertices and may refuse a larger
\* one, on which handle_alloc_error aborts the process.
Allocated(s) ==
    IF Fits(s) /\ Value(s) <= HeapSure THEN {"ok"} ELSE {"ok", "abort"}

Point(px, py) == [x |-> px, y |-> py]

\* A translate that stores the displacement instead of adding it.
Point2DTranslateAssign(p, dx, dy, checks) == [p |-> Point(dx, dy), panic |-> FALSE]

\* Point2D::translate: self.x += dx; self.y += dy.  The result is the point
\* as the call leaves it and whether the call panicked.  A panic on the
\* second addition leaves x already updated.
Point2DTranslate(p, dx, dy, checks) ==
    IF checks /\ Overflows(p.x, dx)
    THEN [p |-> p, panic |-> TRUE]
    ELSE IF checks /\ Overflows(p.y, dy)
         THEN [p |-> Point(WrapAdd(p.x, dx), p.y), panic |-> TRUE]
         ELSE [p |-> Point(WrapAdd(p.x, dx), WrapAdd(p.y, dy)), panic |-> FALSE]

(***************************************************************************)
(* The vertex buffer (Vec<Point2D>).  It is held run-length encoded: a     *)
(* sequence of runs [n |-> count, p |-> point], count >= 1, adjacent runs  *)
(* holding different points.  Vertex i (from 0) is the point of the run    *)
(* that covers index i.  Buffers longer than the chunk floor stay small    *)
(* this way, and two buffers are equal iff their encodings are.            *)
(***************************************************************************)
Run(k, q) == [n |-> k, p |-> q]

\* The one element of a singleton.  { e : x \in {v} } evaluates v once and
\* binds x to its value; the operators below bind their arguments this way.
The(S) == CHOOSE x \in S : TRUE

\* The number of vertices.
RECURSIVE BufLen(_)
BufLen(buffer) ==
    The({ IF b = << >> THEN 0 ELSE Head(b).n + BufLen(Tail(b)) : b \in {buffer} })

\* Vertex i, for 0 <= i < BufLen(buffer).
RECURSIVE At(_, _)
At(buffer, index) ==
    The({ IF i < Head(b).n THEN Head(b).p ELSE At(Tail(b), i - Head(b).n) :
          b \in {buffer}, i \in {index} })

\* The first k vertices.
RECURSIVE Take(_, _)
Take(buffer, count) ==
    The({ IF k <= 0 \/ b = << >> THEN << >>
          ELSE IF Head(b).n <= k THEN <<Head(b)>> \o Take(Tail(b), k - Head(b).n)
          ELSE <<Run(k, Head(b).p)>> :
          b \in {buffer}, k \in {count} })

\* All but the first k vertices.
RECURSIVE Drop(_, _)
Drop(buffer, count) ==
    The({ IF b = << >> THEN << >>
          ELSE IF k <= 0 THEN b
          ELSE IF Head(b).n <= k THEN Drop(Tail(b), k - Head(b).n)
          ELSE <<Run(Head(b).n - k, Head(b).p)>> \o Tail(b) :
          b \in {buffer}, k \in {count} })

\* The encoding without empty runs and with adjacent equal runs merged.
RECURSIVE Norm(_)
Norm(buffer) ==
    The({ IF b = << >> THEN << >>
          ELSE IF Head(b).n = 0 THEN Norm(Tail(b))
          ELSE The({ IF rest # << >> /\ Head(rest).p = Head(b).p
                     THEN <<Run(Head(b).n + Head(rest).n, Head(b).p)>> \o Tail(rest)
                     ELSE <<Head(b)>> \o rest :
                     rest \in {Norm(Tail(b))} }) :
          b \in {buffer} })

Concat(a, b) == Norm(a \o b)

\* The buffer holding the points of the sequence s, in order.
RECURSIVE FromSeq(_)
FromSeq(s) == IF s = << >> THEN << >> ELSE Concat(<<Run(1, Head(s))>>, FromSeq(Tail(s)))

\* Elements lo .. hi-1 of b, and b with these elements replaced by mid.
Slice(b, lo, hi) == Take(Drop(b, lo), hi - lo)

Splice(b, lo, hi, mid) == Concat(Concat(Take(b, lo), mid), Drop(b, hi))

(***************************************************************************)
(* The inputs the operations are called with.                              *)
(***************************************************************************)
\* The test fixtures square_1000 and triangle_1000, and a polygon with
\* vertices on the edge of the Coordinate range.
Square1000 == <<Point(0, 0), Point(1000, 0), Point(1000, 1000), Point(0, 1000)>>

Triangle1000 == <<Point(24, 24), Point(1024, 24), Point(524, 1024)>>

EdgePolygon == <<Point(0, 0), Point(0, MinCoord), Point(MaxCoord, 0)>>

SmallInputs == {<< >>, Square1000, Triangle1000, EdgePolygon}

\* Buffers longer than the chunk floor: all vertices at the origin, or all
\* but the first, or all but the last, which lies on the edge of the range.
LargeInputs ==
    { <<Run(MinChunk + 1, Point(0, 0))>>,
      <<Run(1, Point(MaxCoord, 0)), Run(MinChunk, Point(0, 0))>>,
      <<Run(2 * MinChunk, Point(0, 0)), Run(1, Point(MaxCoord, 0))>> }

\* The iterator over the sequence s: one item per element.
Units(s) == IF s = << >> THEN << >> ELSE [i \in DOMAIN s |-> Run(1, s[i])]

\* The iterators given to from_iter, each with the items it yields and
\* with what Vec::from_iter looks at.  A TrustedLen iterator (an array, a
\* slice, a chain of these) reports its exact length.
TrustedLenIter(items) ==
    [items |-> items, kind |-> "TrustedLen", direct |-> BufLen(items),
     cap |-> 0, advanced |-> FALSE]

\* The vec::IntoIter of a Vec of capacity c, with `items` left in it;
\* `advanced` when items have been taken from it before.
VecIntoIter(items, c, advanced) ==
    [items |-> items, kind |-> "IntoIter", direct |-> BufLen(items),
     cap |-> c, advanced |-> advanced]

\* Any other iterator that is not built on a Vec's IntoIter.  The lower
\* bound of its size_hint counts the first `direct` items only, less the
\* items taken: all of them for a LinkedList or cycle().take(n), none for
\* a filter, the items of the slice for a slice chained with a filter.
SizeHintIter(items, direct) ==
    [items |-> items, kind |-> "size_hint", direct |-> direct,
     cap |-> 0, advanced |-> FALSE]

\* Ten vertices on the diagonal.
Diagonal10 == [i \in 1..10 |-> Point(i - 1, i - 1)]

FromIterInputs ==
    {TrustedLenIter(Units(s)) : s \in SmallInputs}
        \cup {TrustedLenIter(b) : b \in LargeInputs}
        \cup {VecIntoIter(Units(Triangle1000), 10, FALSE),
              VecIntoIter(<<Run(MinChunk + 1, Point(0, 0))>>, 16384, FALSE),
              VecIntoIter(Units(Triangle1000), 16, TRUE),
              SizeHintIter(Units(Triangle1000), 0),
              SizeHintIter(Units(Triangle1000), 3),
              SizeHintIter(Units(Diagonal10), 6)}

\* A request the allocator may refuse, and the capacities asked of
\* with_capacity and of reserve: small ones, that one, 2^60 and usize::MAX,
\* and for reserve 2^32 as well.
LargeRequest == 512 * HeapSure

CapacityInputs ==
    {Usize(n) : n \in 0..MaxCap}
        \cup {Usize(LargeRequest), <<0, 0, 0, LimbBase \div 16>>, UsizeMax}

ReserveInputs ==
    {Usize(n) : n \in 0..MaxCap} \cup {Usize(LargeRequest), <<0, 0, 1, 0>>, UsizeMax}

PointInputs == {Point(500, 500), Point(MaxCoord, MinCoord)}

\* The point a caller stores through a mutable reference.
StoredInputs == {Point(200, 400)}

DeltaInputs == {<<0, 0>>, <<100, -150>>, <<-100, 150>>}

\* Indices tried on a buffer of length l: the first two, the last one, and
\* the two past the end.
IndexInputs(l) == {i \in {0, 1, l - 1, l, l + 1} : i >= 0}

SyncStatus == {"HOST", "GPU", "SYNCED"}

(***************************************************************************)
(* State.                                                                  *)
(***************************************************************************)
VARIABLES
    vertices,         \* Polygon.vertices, run-length encoded
    capacity,         \* the capacity of Polygon.vertices, a usize
    sync_status,      \* Polygon.sync_status
    overflow_checks,  \* whether the build panics on integer overflow
    pc,               \* "idle", or "mt" inside translate_polygon_mt
    call,             \* the translate call in progress or last ended
    chunks,           \* the chunks of par_chunks_mut, as index ranges [lo, hi)
    wstate,           \* per chunk: "pending", "running", "done", "panicked"
    hist,             \* the translate calls ended since the last other operation
    ret,              \* the last operation and how it ended
    ops,              \* operations performed so far
    built,            \* the capacity asked of with_capacity, << >> without one
    source            \* the vertices from_iter built the polygon from, as runs

vars == <<vertices, capacity, sync_status, overflow_checks, pc, call, chunks,
          wstate, hist, ret, ops, built, source>>

NoCall == [strategy |-> "none", dx |-> 0, dy |-> 0, threads |-> 0, before |-> << >>]

Ret(o, st, v) == [op |-> o, status |-> st, val |-> v]

(***************************************************************************)
(* Construction (polygon.rs).                                              *)
(***************************************************************************)
\* The outcome of a constructor: the polygon it returned, or the way it
\* failed ("panic" unwinds, "abort" ends the process) and the message.
Built(poly) == [status |-> "ok", val |-> << >>, poly |-> poly]

Failed(status, message) == [status |-> status, val |-> <<message>>, poly |-> << >>]

\* A constructor that allocates for the first vertices up front.
NewReserved == [vertices |-> << >>, capacity |-> Usize(4), sync_status |-> "HOST"]

\* Polygon::new
New == [vertices |-> << >>, capacity |-> Usize(0), sync_status |-> "HOST"]

\* Polygon::with_capacity(n), n a usize: the outcomes it can have.
\* Vec::with_capacity panics when n vertices are more than isize::MAX
\* bytes, allocates nothing for n = 0, and aborts when the allocator
\* refuses.
WithCapacity(n) ==
    IF LayoutOverflows(n) THEN {Failed("panic", "capacity overflow")}
    ELSE { IF answer = "abort" THEN Failed("abort", "memory allocation failed")
           ELSE Built([vertices |-> << >>, capacity |-> n, sync_status |-> "HOST"]) :
           answer \in Allocated(n) }

\* Vec::extend_desugared on a Vec of capacity cap for an iterator of n
\* items in all: the Vec is full when item cap + 1 arrives, and it then
\* reserves for that item and the lower bound of size_hint, that is for
\* the `direct` items not yet taken.
RECURSIVE ExtendDesugared(_, _, _)
ExtendDesugared(cap, n, direct) ==
    IF cap >= n THEN cap
    ELSE ExtendDesugared(Max(2 * cap, cap + Max(direct - (cap + 1), 0) + 1), n, direct)

\* Vec::from_iter: the capacity of the Vec it returns.  A TrustedLen
\* iterator gets exactly the room for its items.  A vec::IntoIter keeps its
\* allocation unless it was advanced and is left with less than half of
\* it; then its items are appended to a new Vec.  Any other iterator gets
\* an empty Vec when it has no item, and otherwise room for 4 vertices or
\* for the first item and the lower bound of size_hint, and grows as
\* extend_desugared does.
SpecFromIter(iter) ==
    LET n == BufLen(iter.items)
    IN  CASE iter.kind = "TrustedLen" -> n
          [] iter.kind = "IntoIter" ->
                IF ~iter.advanced \/ n >= iter.cap \div 2 THEN iter.cap
                ELSE IF n = 0 THEN 0 ELSE Max(4, n)
          [] iter.kind = "size_hint" ->
                IF n = 0 THEN 0
                ELSE ExtendDesugared(Max(4, Max(iter.direct - 1, 0) + 1), n, iter.direct)

\* Vec::from_iter takes over the allocation of the iterator instead of
\* asking for one.
ReusesAllocation(iter) ==
    /\ iter.kind = "IntoIter"
    /\ ~iter.advanced \/ BufLen(iter.items) >= iter.cap \div 2

\* Polygon::from_iter: the outcomes it can have.  It aborts when the
\* allocator refuses the room Vec::from_iter asks for.
FromIter(iter) ==
    { IF answer = "abort" THEN Failed("abort", "memory allocation failed")
      ELSE Built([vertices |-> Norm(iter.items),
                  capacity |-> Usize(SpecFromIter(iter)),
                  sync_status |-> "HOST"]) :
      answer \in (IF ReusesAllocation(iter) THEN {"ok"}
                  ELSE Allocated(Usize(SpecFromIter(iter)))) }

\* The state after the constructor o: the polygon it returned or, when it
\* failed, no polygon and no further call (pc = "dead").
Constructed(out, o, asked, items) ==
    /\ built = asked
    /\ source = (IF out.status = "ok" THEN items ELSE << >>)
    /\ ret = Ret(o, out.status, out.val)
    /\ IF out.status = "ok"
       THEN /\ vertices = out.poly.vertices
            /\ capacity = out.poly.capacity
            /\ sync_status = out.poly.sync_status
            /\ pc = "idle"
       ELSE /\ vertices = << >>
            /\ capacity = Usize(0)
            /\ sync_status = "HOST"
            /\ pc = "dead"

Init ==
    /\ overflow_checks \in BOOLEAN
    /\ \/ Constructed(Built(New), "new", << >>, << >>)
       \/ \E n \in CapacityInputs :
             \E out \in WithCapacity(n) : Constructed(out, "with_capacity", n, << >>)
       \/ \E iter \in FromIterInputs :
             \E out \in FromIter(iter) : Constructed(out, "from_iter", << >>, iter.items)
    /\ call = NoCall
    /\ chunks = << >>
    /\ wstate = << >>
    /\ hist = << >>
    /\ ops = 0

(***************************************************************************)
(* The accessors and the container operations (polygon.rs).  Each          *)
(* operation goes through host_vertices / host_vertices_mut, which return  *)
(* the buffer as it is and leave the tag alone (the sync is a TODO).       *)
(***************************************************************************)

len == BufLen(vertices)

\* An accessor that marks the copies as in sync.
HostVerticesMutSynced(status) == "SYNCED"

\* Polygon::host_vertices_mut: the tag after the accessor has returned.
HostVerticesMut(status) == status

\* The capacity cap holds l vertices and `additional` more: additional is
\* not greater than cap - l.  The sum is taken with a fifth limb, so that
\* it does not wrap.
Holds(cap, l, additional) ==
    ~LimbsLess(cap \o <<0>>, LimbsAdd(Usize(l) \o <<0>>, additional \o <<0>>, 0))

\* Vec's amortised growth, for `additional` more elements than `l`; cap
\* and additional are usizes.
Grow(cap, l, additional) ==
    LimbsMax(Usize(4), LimbsMax(LimbsAdd(cap, cap, 0), LimbsAdd(Usize(l), additional, 0)))

\* Vec::reserve
Reserved(cap, l, additional) ==
    IF Holds(cap, l, additional) THEN cap ELSE Grow(cap, l, additional)

\* What the operations below that are not translate calls have in common.
Operation(o, st, v) ==
    /\ ret' = Ret(o, st, v)
    /\ sync_status' = HostVerticesMut(sync_status)
    /\ ops' = ops + 1
    /\ hist' = << >>
    /\ UNCHANGED <<overflow_checks, pc, call, chunks, wstate, built, source>>

Callable == pc = "idle" /\ ops < MaxOps

\* handle_alloc_error inside the operation o: the process is gone, and the
\* polygon was left as it was.
Aborted(o) ==
    /\ pc' = "dead"
    /\ ret' = Ret(o, "abort", <<"memory allocation failed">>)
    /\ ops' = ops + 1
    /\ hist' = << >>
    /\ UNCHANGED <<vertices, capacity, sync_status, overflow_checks, call, chunks,
                   wstate, built, source>>

\* Vec::reserve(additional) fails with a capacity overflow: the buffer has
\* to grow, and len + additional overflows usize or the grown buffer is
\* more than isize::MAX bytes.
ReserveOverflows(cap, l, additional) ==
    /\ ~Holds(cap, l, additional)
    /\ \/ LimbsLess(LimbsAdd(Usize(l), additional, 0), additional)
       \/ LayoutOverflows(Grow(cap, l, additional))

\* The outcomes of making room for `additional` more vertices (Vec::reserve,
\* and the growth inside Vec::push and Vec::insert): the status and the
\* capacity afterwards.  A capacity overflow panics, a refused allocation
\* aborts the process; both leave the capacity as it was.
MakeRoom(cap, l, additional) ==
    IF ReserveOverflows(cap, l, additional)
    THEN {[status |-> "panic", capacity |-> cap]}
    ELSE { [status |-> answer,
            capacity |-> IF answer = "ok" THEN Reserved(cap, l, additional) ELSE cap] :
           answer \in (IF Reserved(cap, l, additional) = cap THEN {"ok"}
                       ELSE Allocated(Reserved(cap, l, additional))) }

\* Polygon::reserve(additional), additional a usize.
Reserve(additional) ==
    /\ Callable
    /\ \E room \in MakeRoom(capacity, len, additional) :
          IF room.status = "abort" THEN Aborted("reserve")
          ELSE /\ capacity' = room.capacity
               /\ UNCHANGED vertices
               /\ Operation("reserve", room.status,
                            IF room.status = "panic" THEN <<"capacity overflow">> ELSE << >>)

\* Polygon::push.  Vec::push makes room for one more vertex when the
\* buffer is full, and then writes the vertex behind the last one.
Push(vertex) ==
    /\ Callable
    /\ \E room \in MakeRoom(capacity, len, Usize(1)) :
          IF room.status = "abort" THEN Aborted("push")
          ELSE IF room.status = "panic"
          THEN /\ UNCHANGED <<capacity, vertices>>
               /\ Operation("push", "panic", <<"capacity overflow">>)
          ELSE /\ capacity' = room.capacity
               /\ vertices' = Concat(vertices, <<Run(1, vertex)>>)
               /\ Operation("push", "ok", << >>)

\* A pop that returns the last vertex and leaves it in the buffer.
PopKeep ==
    /\ Callable
    /\ UNCHANGED <<capacity, vertices>>
    /\ Operation("pop", "ok", IF len = 0 THEN << >> ELSE <<At(vertices, len - 1)>>)

\* A pop that takes the first vertex.
PopFront ==
    /\ Callable
    /\ UNCHANGED capacity
    /\ IF len = 0
       THEN /\ UNCHANGED vertices
            /\ Operation("pop", "ok", << >>)
       ELSE /\ vertices' = Drop(vertices, 1)
            /\ Operation("pop", "ok", <<At(vertices, 0)>>)

\* Polygon::pop
Pop ==
    /\ Callable
    /\ UNCHANGED capacity
    /\ IF len = 0
       THEN /\ UNCHANGED vertices
            /\ Operation("pop", "ok", << >>)
       ELSE /\ vertices' = Take(vertices, len - 1)
            /\ Operation("pop", "ok", <<At(vertices, len - 1)>>)

\* Polygon::insert.  Vec::insert panics when index > len; depending on the
\* version of the standard library it makes room before or after that test.
Insert(index, vertex) ==
    /\ Callable
    /\ \/ /\ index > len
          /\ UNCHANGED <<capacity, vertices>>
          /\ Operation("insert", "panic", << >>)
       \/ \E room \in MakeRoom(capacity, len, Usize(1)) :
             IF room.status = "abort" THEN Aborted("insert")
             ELSE IF room.status = "panic"
             THEN /\ UNCHANGED <<capacity, vertices>>
                  /\ Operation("insert", "panic", <<"capacity overflow">>)
             ELSE IF index > len
             THEN /\ capacity' = room.capacity
                  /\ UNCHANGED vertices
                  /\ Operation("insert", "panic", << >>)
             ELSE /\ capacity' = room.capacity
                  /\ vertices' = Splice(vertices, index, index, <<Run(1, vertex)>>)
                  /\ Operation("insert", "ok", << >>)

\* A remove that fills the gap with the last vertex (Vec::swap_remove).
RemoveSwap(index) ==
    /\ Callable
    /\ UNCHANGED capacity
    /\ IF index >= len
       THEN /\ UNCHANGED vertices
            /\ Operation("remove", "panic", << >>)
       ELSE /\ vertices' = Take(Splice(vertices, index, index + 1,
                                       <<Run(1, At(vertices, len - 1))>>), len - 1)
            /\ Operation("remove", "ok", <<At(vertices, index)>>)

\* A remove that answers nothing when there is no such vertex.
RemoveChecked(index) ==
    /\ Callable
    /\ UNCHANGED capacity
    /\ IF index >= len
       THEN /\ UNCHANGED vertices
            /\ Operation("remove", "ok", << >>)
       ELSE /\ vertices' = Splice(vertices, index, index + 1, << >>)
            /\ Operation("remove", "ok", <<At(vertices, index)>>)

\* Polygon::remove.  Vec::remove panics when index >= len.
Remove(index) ==
    /\ Callable
    /\ UNCHANGED capacity
    /\ IF index >= len
       THEN /\ UNCHANGED vertices
            /\ Operation("remove", "panic", << >>)
       ELSE /\ vertices' = Splice(vertices, index, index + 1, << >>)
            /\ Operation("remove", "ok", <<At(vertices, index)>>)

\* A clear that gives the storage back.
ClearAndShrink ==
    /\ Callable
    /\ capacity' = Usize(0)
    /\ vertices' = << >>
    /\ Operation("clear", "ok", << >>)

\* A clear that stops before the first vertex.
ClearButFirst ==
    /\ Callable
    /\ UNCHANGED capacity
    /\ vertices' = Take(vertices, 1)
    /\ Operation("clear", "ok", << >>)

\* Polygon::clear
Clear ==
    /\ Callable
    /\ UNCHANGED capacity
    /\ vertices' = << >>
    /\ Operation("clear", "ok", << >>)

\* Polygon::get_mut, the caller storing `vertex` through the reference it
\* gets; None when the index is out of range.
GetMut(index, vertex) ==
    /\ Callable
    /\ UNCHANGED capacity
    /\ IF index >= len
       THEN /\ UNCHANGED vertices
            /\ Operation("get_mut", "ok", << >>)
       ELSE /\ vertices' = Splice(vertices, index, index + 1, <<Run(1, vertex)>>)
            /\ Operation("get_mut", "ok", <<At(vertices, index)>>)

\* The panic of an index out of bounds: "index out of bounds: the len is
\* {len} but the index is {index}".
PanicBoundsCheck(index, l) == [len |-> l, index |-> index]

\* IndexMut::index_mut, the caller storing `vertex`: poly[index] = vertex.
IndexMut(index, vertex) ==
    /\ Callable
    /\ UNCHANGED capacity
    /\ IF index >= len
       THEN /\ UNCHANGED vertices
            /\ Operation("index_mut", "panic", <<PanicBoundsCheck(index, len)>>)
       ELSE /\ vertices' = Splice(vertices, index, index + 1, <<Run(1, vertex)>>)
            /\ Operation("index_mut", "ok", << >>)

\* The items in reverse.
VisitedBackwards(b) == [i \in DOMAIN b |-> b[Len(b) + 1 - i]]

\* The items a std::slice::Iter or IterMut over the buffer b yields, in
\* order.
Visited(b) == b

\* What the caller of iter_mut does with the vertex it is handed: it swaps
\* the two coordinates, so that a vertex handed out twice is as it was.
Swapped(p) == Point(p.y, p.x)

\* Polygon::iter_mut, run to its end: the call yields the vertices as they
\* were, in order, and the caller has changed each of them in place.
IterMut ==
    /\ Callable
    /\ UNCHANGED capacity
    /\ vertices' = Norm([i \in DOMAIN vertices |->
                           Run(vertices[i].n, Swapped(vertices[i].p))])
    /\ Operation("iter_mut", "ok", <<Visited(vertices)>>)

\* Polygon::host_vertices: the tag after the accessor has returned.
HostVertices(status) == status

\* What the operations below that only read the buffer have in common.
ReadOperation(o, st, v) ==
    /\ Callable
    /\ ret' = Ret(o, st, v)
    /\ sync_status' = HostVertices(sync_status)
    /\ ops' = ops + 1
    /\ hist' = << >>
    /\ UNCHANGED <<vertices, capacity, overflow_checks, pc, call, chunks, wstate,
                   built, source>>

\* An index that answers the origin when there is no such vertex.
IndexOrDefault(index) ==
    ReadOperation("index", "ok",
                  <<IF index >= len THEN Point(0, 0) ELSE At(vertices, index)>>)

\* Index::index: poly[index].
Index(index) ==
    IF index >= len
    THEN ReadOperation("index", "panic", <<PanicBoundsCheck(index, len)>>)
    ELSE ReadOperation("index", "ok", <<At(vertices, index)>>)

\* Polygon::iter, run to its end.
Iter == ReadOperation("iter", "ok", <<Visited(vertices)>>)

\* IntoIterator for &Polygon, run to its end.
IntoIter == ReadOperation("into_iter", "ok", <<Visited(vertices)>>)

\* A get that indexes without a check.
GetOrPanic(index) ==
    IF index >= len
    THEN ReadOperation("get", "panic", <<PanicBoundsCheck(index, len)>>)
    ELSE ReadOperation("get", "ok", <<At(vertices, index)>>)

\* Polygon::get: the vertex at index, None when the index is out of range.
Get(index) ==
    /\ Callable
    /\ ret' = Ret("get", "ok", IF index >= len THEN << >> ELSE <<At(vertices, index)>>)
    /\ sync_status' = HostVertices(sync_status)
    /\ ops' = ops + 1
    /\ hist' = << >>
    /\ UNCHANGED <<vertices, capacity, overflow_checks, pc, call, chunks, wstate, built, source>>

(***************************************************************************)
(* The shape of a polygon (impl Shape2D for Polygon, convexity.rs).        *)
(***************************************************************************)
Convexity == {"UNKNOWN", "CONVEX", "CONCAVE", "DEGENERATE"}

\* Polygon::area: `return 0`.
PolygonArea(b) == 0

\* Polygon::convexity: `return Convexity::UNKNOWN`.
PolygonConvexity(b) == "UNKNOWN"

\* Point2D::convexity
Point2DConvexity(p) == "DEGENERATE"

\* What the two calls below have in common: they touch neither the buffer
\* nor the tag.
Answered(o, v) ==
    /\ Callable
    /\ ret' = Ret(o, "ok", <<v>>)
    /\ ops' = ops + 1
    /\ hist' = << >>
    /\ UNCHANGED <<vertices, capacity, sync_status, overflow_checks, pc, call,
                   chunks, wstate, built, source>>

\* poly.area()
AreaCall == Answered("area", PolygonArea(vertices))

\* poly.convexity()
ConvexityCall == Answered("convexity", PolygonConvexity(vertices))

(***************************************************************************)
(* The translate operations (operations/translate.rs).                     *)
(***************************************************************************)
\* `for vertex in slice { vertex.translate(dx, dy) }` over the buffer b: the
\* buffer as the loop leaves it and whether it panicked.  A panic ends the
\* loop at the vertex that panicked; the vertices of one run hold the same
\* point, so the first of them panics or none does.
RECURSIVE ForEachTranslate(_, _, _, _)
ForEachTranslate(slice, dx, dy, checks) ==
    The({ IF b = << >> THEN [buf |-> << >>, panic |-> FALSE]
          ELSE The({ IF r.panic
                     THEN [buf |-> <<Run(1, r.p), Run(Head(b).n - 1, Head(b).p)>>
                                       \o Tail(b),
                           panic |-> TRUE]
                     ELSE The({ [buf |-> <<Run(Head(b).n, r.p)>> \o rest.buf,
                                 panic |-> rest.panic] :
                                rest \in {ForEachTranslate(Tail(b), dx, dy, checks)} }) :
                     r \in {Point2DTranslate(Head(b).p, dx, dy, checks)} }) :
          b \in {slice} })

CallRecord(strategy, dx, dy, threads) ==
    [strategy |-> strategy, dx |-> dx, dy |-> dy, threads |-> threads,
     before |-> vertices]

\* The record of an ended translate call, and the history with it added
\* (the last two calls are kept).
Ended(c, status) ==
    [strategy |-> c.strategy, dx |-> c.dx, dy |-> c.dy, before |-> c.before,
     status |-> status]

Remember(h, e) == IF Len(h) = 2 THEN <<h[2], e>> ELSE Append(h, e)

\* translate_polygon_st
TranslatePolygonSt(dx, dy) ==
    /\ Callable
    /\ \E r \in {ForEachTranslate(vertices, dx, dy, overflow_checks)} :
          LET c == CallRecord("st", dx, dy, 0)
              status == IF r.panic THEN "panic" ELSE "ok"
          IN  /\ vertices' = Norm(r.buf)
              /\ call' = c
              /\ ret' = Ret("translate_polygon_st", status, << >>)
              /\ hist' = Remember(hist, Ended(c, status))
    /\ sync_status' = HostVerticesMut(sync_status)
    /\ ops' = ops + 1
    /\ UNCHANGED <<capacity, overflow_checks, pc, chunks, wstate, built, source>>

\* impl TwoDimensional for Polygon::translate (polygon.rs): the call of
\* translate_polygon_st on the polygon itself.
PolygonTranslate(dx, dy) ==
    /\ Callable
    /\ \E r \in {ForEachTranslate(vertices, dx, dy, overflow_checks)} :
          LET c == CallRecord("st", dx, dy, 0)
              status == IF r.panic THEN "panic" ELSE "ok"
          IN  /\ vertices' = Norm(r.buf)
              /\ call' = c
              /\ ret' = Ret("translate", status, << >>)
              /\ hist' = Remember(hist, Ended(c, status))
    /\ sync_status' = HostVerticesMut(sync_status)
    /\ ops' = ops + 1
    /\ UNCHANGED <<capacity, overflow_checks, pc, chunks, wstate, built, source>>

\* A chunk size that is the floor, whatever the length and the pool.
ChunkSizeFixed(l, threads) == MinChunk

\* The chunk size without its floor.
ChunkSizeNoFloor(l, threads) == l \div threads

\* cmp::max(10000, len / rayon::current_num_threads())
ChunkSize(l, threads) == Max(MinChunk, l \div threads)

\* A partition that always ends with one more chunk, empty when chunk_size
\* divides the length.
ParChunksMutPadded(l, chunk_size) ==
    [k \in 1..(l \div chunk_size + 1) |->
        [lo |-> (k - 1) * chunk_size, hi |-> Min(k * chunk_size, l)]]

\* par_chunks_mut(chunk_size) over a buffer of length l: consecutive chunks
\* of chunk_size elements, the last one holding the remainder.
ParChunksMut(l, chunk_size) ==
    [k \in 1..((l + chunk_size - 1) \div chunk_size) |->
        [lo |-> (k - 1) * chunk_size, hi |-> Min(k * chunk_size, l)]]

\* translate_polygon_mt, up to the start of the parallel phase.
\* par_chunks_mut panics when chunk_size is zero.
TranslatePolygonMtBegin(dx, dy, threads) ==
    /\ Callable
    /\ LET chunk_size == ChunkSize(len, threads)
           c == CallRecord("mt", dx, dy, threads)
       IN  IF chunk_size = 0
           THEN /\ ret' = Ret("translate_polygon_mt", "panic", << >>)
                /\ hist' = Remember(hist, Ended(c, "panic"))
                /\ chunks' = << >>
                /\ wstate' = << >>
                /\ call' = c
                /\ UNCHANGED pc
           ELSE /\ pc' = "mt"
                /\ call' = c
                /\ chunks' = ParChunksMut(len, chunk_size)
                /\ wstate' = [k \in DOMAIN chunks' |-> "pending"]
                /\ UNCHANGED <<hist, ret>>
    /\ sync_status' = HostVerticesMut(sync_status)
    /\ ops' = ops + 1
    /\ UNCHANGED <<vertices, capacity, overflow_checks, built, source>>

Running == {k \in DOMAIN wstate : wstate[k] = "running"}

\* A pool that keeps one of its threads for the caller.
PoolKeepsThread == Cardinality({k \in DOMAIN wstate : wstate[k] = "running"}) < call.threads - 1

\* The pool has rayon::current_num_threads() threads; one of them is free.
PoolHasIdleThread == Cardinality(Running) < call.threads

\* A join that waits for the first chunk only.
JoinedFirst == \A k \in DOMAIN wstate : k = 1 => wstate[k] \in {"done", "panicked"}

\* for_each is over: every chunk has been run, to its end or to a panic.
Joined == \A k \in DOMAIN wstate : wstate[k] \in {"done", "panicked"}

\* A thread of the pool takes chunk k.
WorkerStart(k) ==
    /\ pc = "mt"
    /\ wstate[k] = "pending"
    /\ PoolHasIdleThread
    /\ wstate' = [wstate EXCEPT ![k] = "running"]
    /\ UNCHANGED <<vertices, capacity, sync_status, overflow_checks, pc, call,
                   chunks, hist, ret, ops, built, source>>

\* The thread runs `slice.iter_mut().for_each(|vertex| vertex.translate(dx, dy))`
\* on chunk k.
WorkerRun(k) ==
    /\ pc = "mt"
    /\ wstate[k] = "running"
    /\ \E r \in {ForEachTranslate(Slice(vertices, chunks[k].lo, chunks[k].hi),
                                  call.dx, call.dy, overflow_checks)} :
          /\ vertices' = Splice(vertices, chunks[k].lo, chunks[k].hi, r.buf)
          /\ wstate' = [wstate EXCEPT ![k] = IF r.panic THEN "panicked" ELSE "done"]
    /\ UNCHANGED <<capacity, sync_status, overflow_checks, pc, call, chunks,
                   hist, ret, ops, built, source>>

\* for_each returns, or resumes the panic of a chunk, once every chunk has
\* been run.
TranslatePolygonMtEnd ==
    /\ pc = "mt"
    /\ Joined
    /\ LET status == IF \E k \in DOMAIN wstate : wstate[k] = "panicked"
                     THEN "panic" ELSE "ok"
       IN  /\ ret' = Ret("translate_polygon_mt", status, << >>)
           /\ hist' = Remember(hist, Ended(call, status))
    /\ pc' = "idle"
    /\ UNCHANGED <<vertices, capacity, sync_status, overflow_checks, call,
                   chunks, wstate, ops, built, source>>

(***************************************************************************)
(* The specification.                                                      *)
(***************************************************************************)
Next ==
    \/ \E a \in ReserveInputs : Reserve(a)
    \/ \E q \in PointInputs : Push(q)
    \/ Pop
    \/ \E i \in IndexInputs(len), q \in PointInputs : Insert(i, q)
    \/ \E i \in IndexInputs(len) \cup {2} : Remove(i)
    \/ Clear
    \/ \E i \in IndexInputs(len), q \in StoredInputs : GetMut(i, q)
    \/ \E i \in IndexInputs(len), q \in StoredInputs : IndexMut(i, q)
    \/ IterMut
    \/ \E i \in {0, len} : Get(i)
    \/ \E i \in {0, len} : Index(i)
    \/ Iter
    \/ IntoIter
    \/ AreaCall
    \/ ConvexityCall
    \/ \E d \in DeltaInputs : TranslatePolygonSt(d[1], d[2])
    \/ \E d \in DeltaInputs : PolygonTranslate(d[1], d[2])
    \/ \E d \in DeltaInputs, t \in 1..MaxThreads : TranslatePolygonMtBegin(d[1], d[2], t)
    \/ \E k \in DOMAIN wstate : WorkerStart(k)
    \/ \E k \in DOMAIN wstate : WorkerRun(k)
    \/ TranslatePolygonMtEnd

Spec == Init /\ [][Next]_vars

Workers ==
    \/ \E k \in DOMAIN wstate : WorkerStart(k)
    \/ \E k \in DOMAIN wstate : WorkerRun(k)
    \/ TranslatePolygonMtEnd

\* The translate calls alone, on a polygon as constructed.
TranslateNext ==
    \/ \E d \in DeltaInputs : TranslatePolygonSt(d[1], d[2])
    \/ \E d \in DeltaInputs : PolygonTranslate(d[1], d[2])
    \/ \E d \in DeltaInputs, t \in 1..MaxThreads : TranslatePolygonMtBegin(d[1], d[2], t)
    \/ Workers

\* The pool schedules every chunk it was given, and the caller resumes.
FairSpec == Init /\ [][TranslateNext]_vars /\ WF_vars(Workers)

TypeOK ==
    /\ sync_status \in SyncStatus
    /\ pc \in {"idle", "mt", "dead"}
    /\ vertices = Norm(vertices)
    /\ ~LimbsLess(capacity, Usize(len))

(***************************************************************************)
(* Properties.                                                             *)
(***************************************************************************)
\* The buffer b with (dx, dy) added to every vertex, modulo 2^32.
Shifted(b, dx, dy) ==
    Norm([i \in DOMAIN b |->
            Run(b[i].n, Point(WrapAdd(b[i].p.x, dx), WrapAdd(b[i].p.y, dy)))])

\* No addition of (dx, dy) to a vertex of b leaves the Coordinate range.
NoOverflow(b, dx, dy) ==
    \A i \in DOMAIN b : ~Overflows(b[i].p.x, dx) /\ ~Overflows(b[i].p.y, dy)

TranslateOps == {"translate_polygon_st", "translate_polygon_mt"}

\* A translate call has ended (returned or panicked) and nothing was done since.
TranslateEnded == pc = "idle" /\ ret.op \in TranslateOps

MtEnded == pc = "idle" /\ ret.op = "translate_polygon_mt"

\* What translate_polygon_st leaves of the buffer b.
StResult(b, dx, dy) == Norm(ForEachTranslate(b, dx, dy, overflow_checks).buf)

\* C1: translate_polygon_mt leaves the polygon with the vertex sequence that
\* translate_polygon_st leaves for the same polygon and displacement, for
\* every number of threads and every interleaving of the chunk workers.
C1_StMtIdentical ==
    MtEnded => vertices = StResult(call.before, call.dx, call.dy)

\* C2: after a translate call, by either strategy, the vertex count is
\* unchanged and every vertex is the original vertex plus (dx, dy).
C2_TranslatedByDelta ==
    TranslateEnded =>
        /\ len = BufLen(call.before)
        /\ vertices = Shifted(call.before, call.dx, call.dy)

\* The last two calls were translate calls by (dx, dy) and then by (-dx, -dy),
\* and no addition of either overflowed.
RoundTrip ==
    /\ pc = "idle"
    /\ Len(hist) = 2
    /\ hist[2].dx = -hist[1].dx
    /\ hist[2].dy = -hist[1].dy
    /\ NoOverflow(hist[1].before, hist[1].dx, hist[1].dy)
    /\ NoOverflow(hist[2].before, hist[2].dx, hist[2].dy)

\* C3: translating by (dx, dy) and then by (-dx, -dy), no addition
\* overflowing, restores the original vertex sequence.
C3_RoundTripRestores == RoundTrip => vertices = hist[1].before

C3_Witness ==
    /\ RoundTrip
    /\ hist[1].dx = 100
    /\ hist[1].strategy = "st"
    /\ hist[2].strategy = "mt"
    /\ hist[1].before = FromSeq(Square1000)
    /\ hist[2].before # hist[1].before

\* The points held by the buffer b.
PointsOf(b) == {b[i].p : i \in DOMAIN b}

\* C4: Point2D::translate never panics, and stores the sums modulo 2^32.
C4_TranslateTotal ==
    /\ \A p \in PointsOf(vertices), d \in DeltaInputs :
          Point2DTranslate(p, d[1], d[2], overflow_checks)
              = [p |-> Point(WrapAdd(p.x, d[1]), WrapAdd(p.y, d[2])), panic |-> FALSE]
    /\ TranslateEnded => ret.status = "ok"

\* The chunks are consecutive, non-empty index ranges from 0 to the length
\* of the buffer.
ChunksPartition ==
    /\ \A k \in DOMAIN chunks :
          /\ chunks[k].lo = (IF k = 1 THEN 0 ELSE chunks[k - 1].hi)
          /\ chunks[k].lo < chunks[k].hi
    /\ BufLen(call.before) = (IF chunks = << >> THEN 0 ELSE chunks[Len(chunks)].hi)

\* Chunk k holds what its worker alone made of it: the original vertices
\* until the worker has run, and its loop's result afterwards.
ChunkOwned(k) ==
    LET lo == chunks[k].lo
        hi == chunks[k].hi
        was == Slice(call.before, lo, hi)
    IN  Slice(vertices, lo, hi) =
            IF wstate[k] \in {"pending", "running"} THEN was
            ELSE Norm(ForEachTranslate(was, call.dx, call.dy, overflow_checks).buf)

InMt == call.strategy = "mt" /\ (pc = "mt" \/ MtEnded)

\* C5: the chunks of translate_polygon_mt are pairwise non-overlapping
\* contiguous index ranges that cover the buffer, no vertex is written by two
\* workers, and every vertex is translated exactly once.
C5_PartitionTranslatesOnce ==
    InMt =>
        /\ ChunksPartition
        /\ \A k \in DOMAIN chunks : ChunkOwned(k)
        /\ MtEnded => vertices = Shifted(call.before, call.dx, call.dy)

\* The part of C5 that does not depend on the calls to Point2D::translate
\* returning: the chunks partition the buffer and each is written by its own
\* worker only.
PartitionOwned ==
    InMt => ChunksPartition /\ \A k \in DOMAIN chunks : ChunkOwned(k)

\* C6: translate_polygon_mt returns only after every chunk worker has
\* finished: once the call has ended no worker is pending or running, and
\* when it has returned every vertex has been translated.
C6_ReturnsAfterJoin ==
    MtEnded =>
        /\ \A k \in DOMAIN wstate : wstate[k] \in {"done", "panicked"}
        /\ ret.status = "ok" =>
              /\ \A k \in DOMAIN wstate : wstate[k] = "done"
              /\ vertices = Shifted(call.before, call.dx, call.dy)

C6_Witness ==
    /\ MtEnded
    /\ ret.status = "ok"
    /\ Len(chunks) >= 2
    /\ call.dx # 0
    /\ vertices # call.before

\* C7: every translate call completes: translate_polygon_st is one loop over
\* a finite buffer, and a translate_polygon_mt call that has started ends.
C7_TranslateCompletes == (pc = "mt") ~> (pc = "idle")

C7_Witness == MtEnded /\ Len(chunks) = 3 /\ call.threads = 2

\* C8: a translate call on a polygon without vertices, by either strategy,
\* ends without error and leaves the polygon without vertices.
C8_EmptyStaysEmpty ==
    (TranslateEnded /\ call.before = << >>) =>
        /\ ret.status = "ok"
        /\ vertices = << >>
        /\ len = 0

C8_Witness ==
    /\ MtEnded
    /\ call.before = << >>
    /\ call.dx = 100
    /\ Len(hist) = 2
    /\ hist[1].strategy = "st"
    /\ hist[1].before = << >>

\* C9: translating by (0, 0) changes nothing: p.translate(0, 0) leaves p, and
\* both strategies leave the vertex sequence as it was.
C9_ZeroIsIdentity ==
    /\ \A p \in PointsOf(vertices) :
          Point2DTranslate(p, 0, 0, overflow_checks) = [p |-> p, panic |-> FALSE]
    /\ (call.strategy # "none" /\ call.dx = 0 /\ call.dy = 0
            /\ (pc = "mt" \/ TranslateEnded)) =>
          /\ vertices = call.before
          /\ TranslateEnded => ret.status = "ok"

C9_Witness ==
    /\ MtEnded
    /\ call.dx = 0
    /\ call.dy = 0
    /\ overflow_checks
    /\ call.before = FromSeq(EdgePolygon)
    /\ Len(hist) = 2
    /\ hist[1].strategy = "st"
    /\ hist[1].dx = 0
    /\ hist[1].dy = 0

HostMutations ==
    {"reserve", "push", "pop", "insert", "remove", "clear", "get_mut",
     "index_mut", "iter_mut", "translate", "translate_polygon_st",
     "translate_polygon_mt"}

\* C10: after every construction and after every host-side mutation the
\* coherence state of the polygon is HOST.
C10_StateIsHost ==
    (ret.op \in {"new", "with_capacity", "from_iter"} \cup HostMutations) =>
        sync_status = "HOST"

C10_Witness ==
    /\ ops = 2
    /\ pc = "idle"
    /\ ret.op = "iter_mut"
    /\ len > 0
    /\ sync_status = "HOST"

\* Without a panic the two strategies agree and shift every vertex: C1, C2
\* and C5 fail only where Point2D::translate panics.
AgreeUnlessPanic ==
    (TranslateEnded /\ ret.status = "ok") =>
        /\ vertices = Shifted(call.before, call.dx, call.dy)
        /\ vertices = StResult(call.before, call.dx, call.dy)

\* The operations that go through host_vertices or host_vertices_mut.
HostAccess == {"get", "index", "iter", "into_iter"} \cup HostMutations

\* The device side is not part of the repository.  Its contract: a
\* device-side computation leaves the device copy current and the host copy
\* stale, and forces the state to GPU.
DeviceCompute ==
    /\ Callable
    /\ sync_status' = "GPU"
    /\ ret' = Ret("device_compute", "ok", << >>)
    /\ ops' = ops + 1
    /\ hist' = << >>
    /\ UNCHANGED <<vertices, capacity, overflow_checks, pc, call, chunks, wstate,
                   built, source>>

\* The program with a device backend at work beside it.
DeviceNext == Next \/ DeviceCompute

DeviceSpec == Init /\ [][DeviceNext]_vars

\* C11: whenever a host accessor has returned the vertex buffer the host copy
\* is authoritative: a state of GPU at the call has been answered by a copy
\* from the device, so that no host access observes the buffer in state GPU.
C11_HostReadAuthoritative ==
    (ret.op \in HostAccess) => sync_status \in {"HOST", "SYNCED"}

\* C12: convexity() never returns UNKNOWN, for a polygon or for a point: it
\* returns CONVEX, CONCAVE or DEGENERATE.
C12_NeverUnknown ==
    /\ \A p \in PointsOf(vertices) \cup PointInputs :
          Point2DConvexity(p) \in Convexity \ {"UNKNOWN"}
    /\ ret.op = "convexity" => ret.val[1] \in {"CONVEX", "CONCAVE", "DEGENERATE"}

\* The shoelace sum is computed for coordinates up to this size.
MaxShoelace == 4096

SmallCoordinates(b) ==
    \A p \in PointsOf(b) :
        /\ p.x \in -MaxShoelace..MaxShoelace
        /\ p.y \in -MaxShoelace..MaxShoelace

\* The sum of the cross products of consecutive vertices, the last with
\* `first`.  The vertices of one run are the same point and add nothing.
RECURSIVE CrossSum(_, _)
CrossSum(b, first) ==
    IF b = << >> THEN 0
    ELSE LET p == Head(b).p
             q == IF Len(b) = 1 THEN first ELSE b[2].p
         IN  (p.x * q.y - q.x * p.y) + CrossSum(Tail(b), first)

\* Twice the signed area of the closed chain b, positive when it winds
\* counter-clockwise.
ShoelaceSum(b) == IF b = << >> THEN 0 ELSE CrossSum(b, Head(b).p)

\* C13: area() returns the signed surface area of the chain, positive for
\* counter-clockwise winding (1000000 for the square of side 1000), and 0 for
\* fewer than 3 vertices.
C13_AreaIsSignedArea ==
    (pc = "idle" /\ ret.op = "area" /\ SmallCoordinates(vertices)) =>
        /\ len < 3 => ret.val[1] = 0
        /\ vertices = FromSeq(Square1000) => ret.val[1] = 1000000
        /\ ShoelaceSum(vertices) % 2 = 0 => 2 * ret.val[1] = ShoelaceSum(vertices)

\* C15: Polygon::new() has no vertices, no reserved capacity and state HOST.
C15_NewIsEmpty ==
    (ret.op = "new" /\ ops = 0) =>
        /\ len = 0
        /\ vertices = << >>
        /\ capacity = Usize(0)
        /\ sync_status = "HOST"

C15_Witness == ret.op = "new" /\ ops = 0 /\ built = << >> /\ pc = "idle"

\* C16: for every n, with_capacity(n) returns a polygon of length 0 and of
\* capacity exactly n, and the capacity is still n after each of the first
\* n additions of a vertex.
C16_WithCapacityExact ==
    built # << >> =>
        /\ ops = 0 => (ret.status = "ok" /\ len = 0 /\ capacity = built)
        /\ (pc = "idle" /\ len = ops /\ ~LimbsLess(built, Usize(ops))) => capacity = built

\* A step that is a call of the operation o and leaves the process alive.
StepOf(o) == ops' = ops + 1 /\ pc' = "idle" /\ ret'.op = o

\* A step that is a call of the operation o, however it ends: it returns,
\* it panics, or the process aborts in it.
CallOf(o) == ops' = ops + 1 /\ pc' \in {"idle", "dead"} /\ ret'.op = o

\* C17: a push onto a polygon whose length equals its capacity leaves the
\* capacity strictly greater than it was.
C17_FullPushGrows ==
    [][(CallOf("push") /\ Usize(len) = capacity) => LimbsLess(capacity, capacity')]_vars

\* C18: no operation makes the capacity smaller than it was.
C18_CapacityMonotone == [][~LimbsLess(capacity', capacity)]_vars

C18_Witness ==
    /\ ops = 2
    /\ pc = "idle"
    /\ ret.op = "clear"
    /\ len = 0
    /\ LimbsLess(Usize(0), capacity)

\* C19: every call reserve(additional) returns with a capacity of at least
\* len + additional; the capacity is unchanged when it already was that
\* large; the vertex sequence is unchanged.
C19_ReserveGuarantee ==
    [][\A a \in ReserveInputs :
          (ops' = ops + 1 /\ ret'.op = "reserve" /\ Reserve(a)) =>
              /\ ret'.status = "ok"
              /\ Holds(capacity', len, a)
              /\ Holds(capacity, len, a) => capacity' = capacity
              /\ vertices' = vertices
              /\ len' = len]_vars

\* C20: push(v) on a polygon of length n gives length n + 1, v at index n
\* and the vertices at indices 0..n-1 unchanged.
C20_PushAppends ==
    [][\A q \in PointInputs : (CallOf("push") /\ Push(q)) =>
          /\ len' = len + 1
          /\ At(vertices', len) = q
          /\ Take(vertices', len) = vertices]_vars

\* C21: pop() on a non-empty polygon removes and returns the last vertex and
\* leaves the others; on an empty polygon it returns None without a panic
\* and leaves the polygon empty.
C21_PopRemovesLast ==
    [][StepOf("pop") =>
          /\ ret'.status = "ok"
          /\ IF len = 0
             THEN ret'.val = << >> /\ vertices' = << >> /\ len' = 0
             ELSE /\ ret'.val = <<At(vertices, len - 1)>>
                  /\ len' = len - 1
                  /\ vertices' = Take(vertices, len - 1)]_vars

C21_Witness ==
    /\ ops = 1
    /\ ret.op = "pop"
    /\ ret.val = <<Point(0, 1000)>>
    /\ vertices = FromSeq(<<Point(0, 0), Point(1000, 0), Point(1000, 1000)>>)

\* C22: insert(i, v) with 0 <= i <= len gives length len + 1, the vertices
\* before i unchanged, v at i, and the vertices from i on one index further;
\* i = len is accepted and appends.
C22_InsertShifts ==
    [][\A i \in IndexInputs(len), q \in PointInputs :
          (CallOf("insert") /\ i <= len /\ Insert(i, q)) =>
              /\ ret'.status = "ok"
              /\ len' = len + 1
              /\ Take(vertices', i) = Take(vertices, i)
              /\ At(vertices', i) = q
              /\ Drop(vertices', i + 1) = Drop(vertices, i)]_vars

\* C23: remove(i) with i < len returns the vertex at i, gives length len - 1,
\* leaves the vertices before i and moves those after i one index down;
\* removing index 2 of the square returns (1000, 1000) and leaves
\* (0, 0), (1000, 0), (0, 1000).
C23_RemoveShifts ==
    [][\A i \in IndexInputs(len) \cup {2} :
          (StepOf("remove") /\ i < len /\ Remove(i)) =>
              /\ ret'.status = "ok"
              /\ ret'.val = <<At(vertices, i)>>
              /\ len' = len - 1
              /\ Take(vertices', i) = Take(vertices, i)
              /\ Drop(vertices', i) = Drop(vertices, i + 1)]_vars

C23_Witness ==
    /\ ops = 1
    /\ ret.op = "remove"
    /\ ret.val = <<Point(1000, 1000)>>
    /\ vertices = FromSeq(<<Point(0, 0), Point(1000, 0), Point(0, 1000)>>)

\* C24: remove(i) with i >= len panics, returns no vertex and removes or
\* reorders nothing.
C24_RemoveOutOfRangePanics ==
    [][\A i \in IndexInputs(len) \cup {2} :
          (StepOf("remove") /\ i >= len /\ Remove(i)) =>
              /\ ret'.status = "panic"
              /\ ret'.val = << >>
              /\ vertices' = vertices]_vars

C24_Witness ==
    /\ ops = 2
    /\ pc = "idle"
    /\ ret.op = "remove"
    /\ ret.status = "panic"
    /\ vertices = FromSeq(Triangle1000)

\* C25: poly[i] with i >= len panics with a message naming the length and
\* the index and returns nothing; with i < len it is the vertex at i, and a
\* write through it changes vertex i only.
C25_IndexChecked ==
    [][/\ \A i \in {0, len} :
             (StepOf("index") /\ Index(i)) =>
                 /\ vertices' = vertices
                 /\ IF i >= len
                    THEN /\ ret'.status = "panic"
                         /\ ret'.val = <<[len |-> len, index |-> i]>>
                    ELSE /\ ret'.status = "ok"
                         /\ ret'.val = <<At(vertices, i)>>
       /\ \A i \in IndexInputs(len), q \in StoredInputs :
             (StepOf("index_mut") /\ IndexMut(i, q)) =>
                 /\ len' = len
                 /\ IF i >= len
                    THEN /\ ret'.status = "panic"
                         /\ ret'.val = <<[len |-> len, index |-> i]>>
                         /\ vertices' = vertices
                    ELSE /\ ret'.status = "ok"
                         /\ At(vertices', i) = q
                         /\ Take(vertices', i) = Take(vertices, i)
                         /\ Drop(vertices', i + 1) = Drop(vertices, i + 1)]_vars

C25_Witness ==
    /\ ops = 1
    /\ ret.op = "index"
    /\ ret.status = "panic"
    /\ ret.val = <<[len |-> 3, index |-> 3]>>
    /\ vertices = FromSeq(Triangle1000)

\* C26: get(i) and get_mut(i) return the vertex at i when i < len and None,
\* without failing, when i >= len; neither changes the length or the order.
C26_GetChecked ==
    [][/\ \A i \in {0, len} :
             (StepOf("get") /\ Get(i)) =>
                 /\ ret'.status = "ok"
                 /\ ret'.val = (IF i < len THEN <<At(vertices, i)>> ELSE << >>)
                 /\ vertices' = vertices
       /\ \A i \in IndexInputs(len), q \in StoredInputs :
             (StepOf("get_mut") /\ GetMut(i, q)) =>
                 /\ ret'.status = "ok"
                 /\ ret'.val = (IF i < len THEN <<At(vertices, i)>> ELSE << >>)
                 /\ len' = len
                 /\ Take(vertices', i) = Take(vertices, i)
                 /\ Drop(vertices', i + 1) = Drop(vertices, i + 1)]_vars

C26_Witness ==
    /\ ops = 1
    /\ ret.op = "get"
    /\ ret.status = "ok"
    /\ ret.val = << >>
    /\ vertices = FromSeq(Square1000)

\* C27: after clear() the length is 0, and a pop() or a get(i) that follows
\* returns None.
C27_ClearEmpties ==
    [][/\ StepOf("clear") => (len' = 0 /\ vertices' = << >>)
       /\ (pc = "idle" /\ ret.op = "clear") =>
             /\ StepOf("pop") => (ret'.status = "ok" /\ ret'.val = << >>)
             /\ StepOf("get") => (ret'.status = "ok" /\ ret'.val = << >>)]_vars

C27_Witness ==
    /\ ops = 2
    /\ pc = "idle"
    /\ ret.op = "pop"
    /\ ret.val = << >>
    /\ len = 0
    /\ capacity = Usize(MinChunk + 1)

\* The buffer after pushing what the iterator `it` yields, in order.
RECURSIVE PushedAll(_)
PushedAll(it) ==
    IF it = << >> THEN << >>
    ELSE Concat(PushedAll(SubSeq(it, 1, Len(it) - 1)), <<it[Len(it)]>>)

\* The buffers a and b have the same length and the same vertices at the
\* indices tried.
SameItems(a, b) ==
    /\ BufLen(a) = BufLen(b)
    /\ \A i \in IndexInputs(BufLen(a)) \cup {2} : i < BufLen(a) => At(a, i) = At(b, i)

Iterations == {"iter", "into_iter", "iter_mut"}

\* C28: a polygon built by from_iter has the length and the vertices of the
\* sequence the iterator yielded, in its order, as pushing them in order
\* gives; iter(), into_iter() and iter_mut() each yield the vertices of the
\* polygon once each, in index order (the first call after from_iter
\* yields that sequence), and iter_mut lets the caller change each vertex
\* once, in place.
C28_OrderPreserved ==
    /\ []((ops = 0 /\ ret.op = "from_iter" /\ ret.status = "ok") =>
              /\ len = BufLen(source)
              /\ vertices = Norm(source)
              /\ vertices = PushedAll(source))
    /\ [][\A o \in Iterations : CallOf(o) =>
              /\ ret'.status = "ok"
              /\ ret'.val = <<vertices>>
              /\ (ops = 0 /\ ret.op = "from_iter") => ret'.val = <<Norm(source)>>
              /\ len' = len
              /\ \A i \in DOMAIN vertices :
                    \A at \in {BufLen(SubSeq(vertices, 1, i - 1)), BufLen(SubSeq(vertices, 1, i)) - 1} :
                       /\ At(ret'.val[1], at) = vertices[i].p
                       /\ At(vertices', at) =
                             IF o = "iter_mut" THEN Swapped(vertices[i].p) ELSE vertices[i].p]_vars

C28_Witness ==
    /\ ops = 1
    /\ ret.op = "iter_mut"
    /\ source = Units(Square1000)
    /\ ret.val = <<FromSeq(Square1000)>>
    /\ At(vertices, 1) = Point(0, 1000)
    /\ At(vertices, 3) = Point(1000, 0)

\* C29: apart from indexing out of range and remove out of range, no
\* operation fails.
C29_TotalExceptIndexing ==
    (pc # "mt" /\ ret.op \notin {"index", "index_mut", "remove"}) => ret.status = "ok"

(***************************************************************************)
(* The operators of Point2D (point2d.rs): a + b and a - b build a new      *)
(* point from a.x + b.x, a.y + b.y and a.x - b.x, a.y - b.y.  Both         *)
(* operands are taken by reference and stay as they are.                   *)
(***************************************************************************)
\* a - b leaves the Coordinate range.
SubOverflows(a, b) ==
    \/ (b < 0 /\ a > MaxCoord + b)
    \/ (b > 0 /\ a < MinCoord + b)

\* a - b modulo 2^32, as a Coordinate.
WrapSub(a, b) ==
    IF b < 0 /\ a > MaxCoord + b THEN (a + MinCoord) - (b - MinCoord)
    ELSE IF b > 0 /\ a < MinCoord + b THEN (a - MinCoord) - (b + MinCoord)
    ELSE a - b

\* -a modulo 2^32, as a Coordinate.
WrapNeg(a) == IF a = MinCoord THEN MinCoord ELSE 0 - a

\* impl_op_ex!(+ ...): Point2D::new(a.x + b.x, a.y + b.y).  A panic builds
\* no point.
Point2DAdd(a, b, checks) ==
    IF checks /\ (Overflows(a.x, b.x) \/ Overflows(a.y, b.y))
    THEN [p |-> << >>, panic |-> TRUE]
    ELSE [p |-> <<Point(WrapAdd(a.x, b.x), WrapAdd(a.y, b.y))>>, panic |-> FALSE]

\* impl_op_ex!(- ...): Point2D::new(a.x - b.x, a.y - b.y).
Point2DSub(a, b, checks) ==
    IF checks /\ (SubOverflows(a.x, b.x) \/ SubOverflows(a.y, b.y))
    THEN [p |-> << >>, panic |-> TRUE]
    ELSE [p |-> <<Point(WrapSub(a.x, b.x), WrapSub(a.y, b.y))>>, panic |-> FALSE]

\* The operands tried: those of the tests of point2d.rs, the points used
\* elsewhere, and points at the ends of the Coordinate range.
OperandInputs ==
    PointInputs \cup StoredInputs
        \cup {Point(100, 200), Point(10, -20), Point(-1, MinCoord)}

\* The call of an operator on the points a and b: the record of the call
\* holds the operands as they are after it, then the point built, if any.
OperatorCall(o, a, b, r) ==
    /\ Callable
    /\ ret' = Ret(o, IF r.panic THEN "panic" ELSE "ok", <<a, b>> \o r.p)
    /\ ops' = ops + 1
    /\ UNCHANGED <<vertices, capacity, sync_status, overflow_checks, pc, call,
                   chunks, wstate, hist, built, source>>

PointAdd(a, b) == \E r \in {Point2DAdd(a, b, overflow_checks)} : OperatorCall("add", a, b, r)

PointSub(a, b) == \E r \in {Point2DSub(a, b, overflow_checks)} : OperatorCall("sub", a, b, r)

\* Ord on Coordinate (i32): the Ordering of a against b.
CoordinateCmp(a, b) == IF a < b THEN "Less" ELSE IF a > b THEN "Greater" ELSE "Equal"

\* A comparison that looks at y before x.
Point2DCmpYFirst(p, q) ==
    IF CoordinateCmp(p.y, q.y) # "Equal" THEN CoordinateCmp(p.y, q.y)
    ELSE CoordinateCmp(p.x, q.x)

\* #[derive(Ord, PartialOrd)] on Point2D: the fields are compared in the
\* order of their declaration, x and then y, and the first that differs
\* decides.
Point2DCmp(p, q) ==
    IF CoordinateCmp(p.x, q.x) # "Equal" THEN CoordinateCmp(p.x, q.x)
    ELSE CoordinateCmp(p.y, q.y)

\* #[derive(Eq, PartialEq)] on Point2D: every field is equal.
Point2DEq(p, q) == p.x = q.x /\ p.y = q.y

\* The points compared: the operands above and those of the tests
\* point2d_compare_*.
CompareInputs ==
    OperandInputs \cup {Point(100, 150), Point(101, 100), Point(100, 100)}

\* a.cmp(&b) and a == b.
PointCompare(a, b) ==
    /\ Callable
    /\ ret' = Ret("cmp", "ok", <<a, b, Point2DCmp(a, b), Point2DEq(a, b)>>)
    /\ ops' = ops + 1
    /\ UNCHANGED <<vertices, capacity, sync_status, overflow_checks, pc, call,
                   chunks, wstate, hist, built, source>>

\* An area that depends on where the point lies.
Point2DAreaAnchored(p) == p.x

\* Point2D::area: `return 0`.
Point2DArea(p) == 0

\* area() and convexity() of the point a as a translate by (dx, dy) left it.
PointShape(a, dx, dy) ==
    /\ Callable
    /\ \E r \in {Point2DTranslate(a, dx, dy, overflow_checks)} :
          ret' = Ret("shape", "ok", <<a, r.p, Point2DArea(r.p), Point2DConvexity(r.p)>>)
    /\ ops' = ops + 1
    /\ UNCHANGED <<vertices, capacity, sync_status, overflow_checks, pc, call,
                   chunks, wstate, hist, built, source>>

PointNext ==
    \/ \E a \in OperandInputs, b \in OperandInputs : PointAdd(a, b)
    \/ \E a \in OperandInputs, b \in OperandInputs : PointSub(a, b)
    \/ \E a \in CompareInputs, b \in CompareInputs : PointCompare(a, b)
    \/ \E a \in OperandInputs, d \in DeltaInputs : PointShape(a, d[1], d[2])

PointSpec == Init /\ [][PointNext]_vars

\* C30: p + q = q + p, and p - q is p + (-q) in each coordinate; the
\* operators return a new point and leave both operands as they were.
C30_OperatorsAlgebra ==
    (pc = "idle" /\ ret.op \in {"add", "sub"}) =>
        /\ ret.status = "ok"
        /\ Len(ret.val) = 3
        /\ ret.val[1] \in OperandInputs /\ ret.val[2] \in OperandInputs
        /\ Point2DAdd(ret.val[1], ret.val[2], overflow_checks)
              = Point2DAdd(ret.val[2], ret.val[1], overflow_checks)
        /\ ret.op = "add" =>
              ret.val[3] = Point(WrapAdd(ret.val[1].x, ret.val[2].x),
                                 WrapAdd(ret.val[1].y, ret.val[2].y))
        /\ ret.op = "sub" =>
              ret.val[3] = Point(WrapAdd(ret.val[1].x, WrapNeg(ret.val[2].x)),
                                 WrapAdd(ret.val[1].y, WrapNeg(ret.val[2].y)))

\* p is before q in the lexicographic order, x first.
LexLess(p, q) == p.x < q.x \/ (p.x = q.x /\ p.y < q.y)

\* C31: the order on Point2D is the lexicographic order with x before y:
\* p < q iff p.x < q.x or (p.x = q.x and p.y < q.y); exactly one of p < q,
\* p = q, p > q holds, and p = q iff both coordinates are equal.
C31_LexicographicOrder ==
    ret.op = "cmp" =>
        LET p == ret.val[1]
            q == ret.val[2]
            lt == ret.val[3] = "Less"
            gt == ret.val[3] = "Greater"
            eq == ret.val[4]
        IN  /\ lt <=> LexLess(p, q)
            /\ gt <=> LexLess(q, p)
            /\ eq <=> (p.x = q.x /\ p.y = q.y)
            /\ eq <=> ret.val[3] = "Equal"
            /\ Cardinality({c \in {"lt", "eq", "gt"} :
                              \/ c = "lt" /\ lt
                              \/ c = "eq" /\ eq
                              \/ c = "gt" /\ gt}) = 1

C31_Witness ==
    /\ ret.op = "cmp"
    /\ ret.val[1] = Point(101, 100)
    /\ ret.val[2] = Point(100, 150)
    /\ ret.val[3] = "Greater"
    /\ ~ret.val[4]

\* C32: for every Point2D, area() is 0 and convexity() is DEGENERATE,
\* whatever its coordinates and whatever translation was applied to it.
C32_PointIsDegenerate ==
    ret.op = "shape" => (ret.val[3] = 0 /\ ret.val[4] = "DEGENERATE")

C32_Witness ==
    /\ ret.op = "shape"
    /\ ret.val[1] = Point(-1, MinCoord)
    /\ ret.val[2] = Point(99, MaxCoord - 149)
    /\ ret.val[3] = 0

(***************************************************************************)
(* The numeric types (coordinate.rs): Coordinate is i32 and Area is i64.   *)
(* An Area is held as four 16-bit limbs in two's complement, the least     *)
(* significant first, so that its sums stay within the integers at hand.   *)
(***************************************************************************)
\* The sign bit of an Area.
AreaNegative(a) == a[Len(a)] >= LimbBase \div 2

\* `n as Area` for a Coordinate n: sign extension to 64 bits.
AreaFrom(n) ==
    <<n % LimbBase, (n \div LimbBase) % LimbBase,
      IF n < 0 THEN LimbBase - 1 ELSE 0, IF n < 0 THEN LimbBase - 1 ELSE 0>>

\* Area::MAX = 0x7FFFFFFFFFFFFFFF and Area::MIN = -0x8000000000000000.
AreaMax == <<LimbBase - 1, LimbBase - 1, LimbBase - 1, LimbBase \div 2 - 1>>

AreaMin == <<0, 0, 0, LimbBase \div 2>>

\* A sum that is kept in a wider type: both operands are extended by a limb.
AreaWrappingAddWide(a, b) ==
    LimbsAdd(a \o <<IF AreaNegative(a) THEN LimbBase - 1 ELSE 0>>,
             b \o <<IF AreaNegative(b) THEN LimbBase - 1 ELSE 0>>, 0)

\* i64::wrapping_add
AreaWrappingAdd(a, b) == LimbsAdd(a, b, 0)

\* i64::checked_add: None (no value) when the operands have one sign and
\* the sum the other.
AreaCheckedAdd(a, b) ==
    IF AreaNegative(a) = AreaNegative(b)
          /\ AreaNegative(AreaWrappingAdd(a, b)) # AreaNegative(a)
    THEN << >>
    ELSE <<AreaWrappingAdd(a, b)>>

\* i32::checked_add
CoordinateCheckedAdd(a, b) == IF Overflows(a, b) THEN << >> ELSE <<a + b>>

\* The values of the tests coordinate_range and area_range and their
\* neighbours.
CoordinateInputs == {MinCoord, MinCoord + 1, -1, 0, 1, MaxCoord - 1, MaxCoord}

AreaInputs ==
    {AreaMin, AreaFrom(MinCoord), AreaFrom(-1), AreaFrom(0), AreaFrom(1),
     AreaFrom(MaxCoord), AreaMax}

\* x.checked_add(y) and x.wrapping_add(y) on Coordinate.
CoordinateAdd(x, y) ==
    /\ Callable
    /\ ret' = Ret("coordinate_add", "ok",
                  <<x, y, CoordinateCheckedAdd(x, y), WrapAdd(x, y)>>)
    /\ ops' = ops + 1
    /\ UNCHANGED <<vertices, capacity, sync_status, overflow_checks, pc, call,
                   chunks, wstate, hist, built, source>>

\* x.checked_add(y) and x.wrapping_add(y) on Area.
AreaAdd(x, y) ==
    /\ Callable
    /\ ret' = Ret("area_add", "ok",
                  <<x, y, AreaCheckedAdd(x, y), AreaWrappingAdd(x, y)>>)
    /\ ops' = ops + 1
    /\ UNCHANGED <<vertices, capacity, sync_status, overflow_checks, pc, call,
                   chunks, wstate, hist, built, source>>

CoordinateNext ==
    \/ \E x \in CoordinateInputs, y \in CoordinateInputs : CoordinateAdd(x, y)
    \/ \E x \in AreaInputs, y \in AreaInputs : AreaAdd(x, y)

CoordinateSpec == Init /\ [][CoordinateNext]_vars

\* The sequence a is an Area: four limbs, each below the limb base.
IsArea(a) == Len(a) = 4 /\ \A i \in 1..4 : a[i] \in 0..(LimbBase - 1)

\* C33: Coordinate holds exactly the signed 32-bit range and Area exactly
\* the signed 64-bit range: the maximum plus 1 wraps to the minimum and is
\* reported as overflow by checked addition, and no sum is widened.
C33_ExactRanges ==
    /\ ret.op = "coordinate_add" =>
          LET x == ret.val[1]
              y == ret.val[2]
              checked == ret.val[3]
              wrapped == ret.val[4]
          IN  /\ wrapped \in MinCoord..MaxCoord
              /\ checked # << >> => checked = <<wrapped>>
              /\ (x = MaxCoord /\ y = 1) => (wrapped = MinCoord /\ checked = << >>)
              /\ (x = MinCoord /\ y = -1) => (wrapped = MaxCoord /\ checked = << >>)
              /\ (x = MaxCoord - 1 /\ y = 1) => checked = <<MaxCoord>>
              /\ (x = MaxCoord /\ y = MinCoord) => checked = <<-1>>
    /\ ret.op = "area_add" =>
          LET x == ret.val[1]
              y == ret.val[2]
              checked == ret.val[3]
              wrapped == ret.val[4]
          IN  /\ IsArea(wrapped)
              /\ checked # << >> => checked = <<wrapped>>
              /\ (x = AreaMax /\ y = AreaFrom(1)) => (wrapped = AreaMin /\ checked = << >>)
              /\ (x = AreaMin /\ y = AreaFrom(-1)) => (wrapped = AreaMax /\ checked = << >>)
              /\ (x = AreaFrom(MaxCoord) /\ y = AreaFrom(1)) =>
                    checked = <<<<0, LimbBase \div 2, 0, 0>>>>
              /\ (x = AreaMax /\ y = AreaMin) => checked = <<AreaFrom(-1)>>

C33_Witness ==
    /\ ret.op = "area_add"
    /\ ret.val[1] = AreaMax
    /\ ret.val[2] = AreaFrom(1)
    /\ ret.val[3] = << >>
    /\ ret.val[4] = AreaMin

(***************************************************************************)
(* The partition of translate_polygon_mt on its own: the chunk size and    *)
(* the chunks for a buffer of a given length and a pool of a given size.   *)
(***************************************************************************)
\* Buffer lengths around the floor and its multiples, and one that leaves a
\* remainder larger than the floor under the large pool below.
LengthInputs ==
    {0, 1, MinChunk - 1, MinChunk, MinChunk + 1, 2 * MinChunk - 1, 2 * MinChunk,
     2 * MinChunk + 1, 3 * MinChunk + 2, 8 * MinChunk,
     (MinChunk + 2) * MinChunk + MinChunk + 1}

\* Values of rayon::current_num_threads(): the pool has the size its builder
\* or RAYON_NUM_THREADS asked for, which can exceed the number of cores.
PoolInputs == (1..MaxPool) \cup {MinChunk + 2}

\* The first statement of translate_polygon_mt and the par_chunks_mut that
\* follows it, for a buffer of length l and a pool of `threads` threads.
TranslatePolygonMtPlan(l, threads) ==
    /\ Callable
    /\ ret' = Ret("par_chunks_mut", "ok",
                  <<l, threads, ChunkSize(l, threads),
                    ParChunksMut(l, ChunkSize(l, threads))>>)
    /\ ops' = ops + 1
    /\ UNCHANGED <<vertices, capacity, sync_status, overflow_checks, pc, call,
                   chunks, wstate, hist, built, source>>

ChunkNext == \E l \in LengthInputs, t \in PoolInputs : TranslatePolygonMtPlan(l, t)

ChunkSpec == Init /\ [][ChunkNext]_vars

Planned == ret.op = "par_chunks_mut"

\* C34: the chunk size of translate_polygon_mt is max(10000, len div
\* parallelism), a function of the length, the parallelism and the floor
\* alone; it is at least 10000 and never zero.
C34_ChunkSizeIsMax ==
    Planned =>
        LET l == ret.val[1]
            t == ret.val[2]
            chunk_size == ret.val[3]
        IN  /\ chunk_size >= MinChunk
            /\ chunk_size >= l \div t
            /\ chunk_size \in {MinChunk, l \div t}
            /\ chunk_size # 0

C34_Witness ==
    /\ Planned
    /\ ret.val[1] = 8 * MinChunk
    /\ ret.val[2] = 4
    /\ ret.val[3] = 2 * MinChunk

\* C35: when the length is at most the floor, translate_polygon_mt makes at
\* most one chunk of the buffer, for every size of the pool.
C35_SmallIsSequential ==
    (Planned /\ ret.val[1] <= MinChunk) =>
        /\ Len(ret.val[4]) <= 1
        /\ \A k \in DOMAIN ret.val[4] :
              ret.val[4][k].lo = 0 /\ ret.val[4][k].hi = ret.val[1]

C35_Witness ==
    /\ Planned
    /\ ret.val[1] = MinChunk
    /\ ret.val[2] = 4
    /\ ret.val[4] = <<[lo |-> 0, hi |-> MinChunk]>>

\* The length divided by the parallelism is at least the floor.
LargePlan == Planned /\ ret.val[1] \div ret.val[2] >= MinChunk

\* Every chunk of the plan but the last holds len div parallelism vertices.
EvenChunks ==
    \A k \in DOMAIN ret.val[4] :
        k < Len(ret.val[4]) =>
            ret.val[4][k].hi - ret.val[4][k].lo = ret.val[1] \div ret.val[2]

\* C36 with the bound for every pool size: on a large polygon every chunk
\* but the last holds len div parallelism vertices, and there are at least parallelism and at most
\* parallelism + 1 chunks.
C36_RoughlyEven ==
    LargePlan =>
        /\ EvenChunks
        /\ Len(ret.val[4]) >= ret.val[2]
        /\ Len(ret.val[4]) <= ret.val[2] + 1

\* C36 with the bound for pools within the chunk size: on a large polygon
\* every chunk but the last holds len div parallelism vertices, the last holds between 1 and that many, and there
\* are at least parallelism chunks; there are at most parallelism + 1 of
\* them when the parallelism is at most len div parallelism + 1, and in
\* general the remainder len mod parallelism makes as many further chunks
\* as it takes.
C36_RoughlyEvenWithinPool ==
    LargePlan =>
        LET l == ret.val[1]
            t == ret.val[2]
            q == l \div t
            n == Len(ret.val[4])
        IN  /\ EvenChunks
            /\ ret.val[4][n].hi = l
            /\ ret.val[4][n].hi - ret.val[4][n].lo \in 1..q
            /\ n >= t
            /\ n = t + ((l % t) + q - 1) \div q
            /\ t <= q + 1 => n <= t + 1

C36_Witness ==
    /\ LargePlan
    /\ ret.val[1] = 2 * MinChunk + 1
    /\ ret.val[2] = 2
    /\ Len(ret.val[4]) = 3

\* What translate_polygon_mt leaves of the buffer b once the first k chunks
\* of the partition cs have been run.
RECURSIVE MtChunksResult(_, _, _, _, _)
MtChunksResult(b, cs, k, dx, dy) ==
    IF k = 0 THEN b
    ELSE Norm(Splice(MtChunksResult(b, cs, k - 1, dx, dy), cs[k].lo, cs[k].hi,
                     ForEachTranslate(Slice(b, cs[k].lo, cs[k].hi), dx, dy,
                                      overflow_checks).buf))

\* What translate_polygon_mt leaves of the buffer b with a pool of t threads.
MtResult(b, dx, dy, t) ==
    LET cs == ParChunksMut(BufLen(b), ChunkSize(BufLen(b), t))
    IN  MtChunksResult(b, cs, Len(cs), dx, dy)

PolygonTranslated == pc = "idle" /\ ret.op = "translate"

\* Polygon::translate leaves what translate_polygon_st leaves, and ends as
\* it ends.
DispatchesToSt ==
    PolygonTranslated =>
        /\ vertices = StResult(call.before, call.dx, call.dy)
        /\ (ret.status = "panic") =
              ForEachTranslate(call.before, call.dx, call.dy, overflow_checks).panic

\* C37: Polygon::translate(dx, dy) leaves exactly the state that
\* translate_polygon_st leaves, and therefore the state that
\* translate_polygon_mt leaves, for every polygon and (dx, dy).
C37_TranslateIsSt ==
    DispatchesToSt
        /\ (PolygonTranslated =>
               \A t \in 1..MaxThreads :
                   vertices = MtResult(call.before, call.dx, call.dy, t))

\* A step of a translate call, by either strategy or through the polygon:
\* the call of translate_polygon_st, or any step of translate_polygon_mt
\* from its start to its return.
TranslateStep ==
    \/ pc = "mt"
    \/ pc' = "mt"
    \/ StepOf("translate_polygon_st")
    \/ StepOf("translate_polygon_mt")
    \/ StepOf("translate")

\* What a translate by (dx, dy) can have made of the point p: nothing yet,
\* x moved (a panic on y), or both moved.
Moved(p, dx, dy) ==
    {p, Point(WrapAdd(p.x, dx), p.y), Point(WrapAdd(p.x, dx), WrapAdd(p.y, dy))}

\* The indices looked at in a buffer of length l: those of IndexInputs and
\* the two around the first chunk boundary.
FrameIndices(l) == {i \in IndexInputs(l) \cup {MinChunk - 1, MinChunk} : i < l}

\* C38: the translate strategies change vertex coordinates only: the vertex
\* count, the order of the vertices, the capacity and the coherence tag are
\* after every step of a call what they were before it, chunk workers
\* included.
C38_TranslateFrame ==
    [][TranslateStep =>
          /\ len' = len
          /\ capacity' = capacity
          /\ sync_status' = sync_status
          /\ \A i \in FrameIndices(len) :
                At(vertices', i) \in Moved(At(vertices, i), call'.dx, call'.dy)]_vars

C38_Witness ==
    /\ TranslateEnded
    /\ ret.op = "translate_polygon_mt"
    /\ ret.status = "panic"
    /\ len = MinChunk + 1
    /\ capacity = Usize(len)
    /\ sync_status = "HOST"
    /\ At(vertices, 0) = Point(MaxCoord, 0)
    /\ At(vertices, MinChunk) = Point(100, -150)

\* The last two calls were translate calls, one after the other.
Composed == pc = "idle" /\ Len(hist) = 2

\* C39: translating by (a, b) and then by (c, d) leaves the vertex sequence
\* that one translation by (a + c, b + d) modulo 2^32 leaves, whichever
\* strategy performs each step, and so does translating in the other order.
C39_TranslationsCompose ==
    Composed =>
        LET b == hist[1].before
            dx == WrapAdd(hist[1].dx, hist[2].dx)
            dy == WrapAdd(hist[1].dy, hist[2].dy)
        IN  /\ hist[2].before = Shifted(b, hist[1].dx, hist[1].dy)
            /\ vertices = Shifted(b, dx, dy)
            /\ vertices = Shifted(Shifted(b, hist[2].dx, hist[2].dy),
                                  hist[1].dx, hist[1].dy)

\* The two translations composed, where no addition is checked.
ComposeWrapping == ~overflow_checks => C39_TranslationsCompose

\* -a in Area: the complement of every limb, plus one (i64::wrapping_neg).
AreaNeg(a) == LimbsAdd([i \in DOMAIN a |-> LimbBase - 1 - a[i]], AreaFrom(1), 0)

\* a * k in Area for a small factor, 0 <= k <= 256, limb by limb with the
\* carry (no product leaves 31 bits).
RECURSIVE AreaScale(_, _, _)
AreaScale(a, k, carry) ==
    IF a = << >> THEN << >>
    ELSE LET t == Head(a) * k + carry
         IN  <<t % LimbBase>> \o AreaScale(Tail(a), k, t \div LimbBase)

\* a * n in Area, n a Coordinate (i64::wrapping_mul by `n as Area`), eight
\* bits of n at a time; a negative n through a * n = -(a * (-(n + 1)) + a).
RECURSIVE AreaTimes(_, _)
AreaTimes(a, n) ==
    IF n = 0 THEN AreaFrom(0)
    ELSE IF n < 0 THEN AreaNeg(AreaWrappingAdd(AreaTimes(a, -(n + 1)), a))
    ELSE IF n <= 256 THEN AreaScale(a, n, 0)
    ELSE AreaWrappingAdd(AreaScale(AreaTimes(a, n \div 256), 256, 0),
                         AreaScale(a, n % 256, 0))

\* The cross product p.x * q.y - q.x * p.y in Area.
AreaCross(p, q) ==
    AreaWrappingAdd(AreaTimes(AreaFrom(p.x), q.y), AreaNeg(AreaTimes(AreaFrom(q.x), p.y)))

\* CrossSum in Area: the sum of the cross products of consecutive vertices,
\* the last with `first`, for coordinates of the whole Coordinate range.
RECURSIVE AreaCrossSum(_, _)
AreaCrossSum(b, first) ==
    IF b = << >> THEN AreaFrom(0)
    ELSE AreaWrappingAdd(AreaCross(Head(b).p, IF Len(b) = 1 THEN first ELSE b[2].p),
                         AreaCrossSum(Tail(b), first))

\* ShoelaceSum in Area: twice the signed area of the closed chain b.
AreaShoelaceSum(b) == IF b = << >> THEN AreaFrom(0) ELSE AreaCrossSum(b, Head(b).p)

\* A call that translates every vertex of the polygon has returned.
Translated == pc = "idle" /\ ret.op \in TranslateOps \cup {"translate"} /\ ret.status = "ok"

Addition == StepOf("push") \/ (StepOf("insert") /\ ret'.status = "ok")

Removal ==
    \/ StepOf("pop") /\ ret'.val # << >>
    \/ StepOf("remove") /\ ret'.status = "ok"

\* C40: in every reachable state len() <= capacity(), and len() is the
\* number of vertices added (the initial ones, push, insert) less the number
\* removed (pop returning a vertex, remove) since the last clear: it starts
\* as the number of initial vertices, a clear makes it 0, an addition adds 1,
\* a removal takes 1, and no other step changes it.
C40_LenCounts ==
    /\ len = BufLen(source)
    /\ [](~LimbsLess(capacity, Usize(len)))
    /\ [][len' = IF StepOf("clear") THEN 0
                 ELSE IF Addition THEN len + 1
                 ELSE IF Removal THEN len - 1
                 ELSE len]_vars

C40_Witness ==
    /\ pc = "idle"
    /\ ops = 2
    /\ ret.op = "remove"
    /\ ret.status = "ok"
    /\ source = Units(Square1000)
    /\ len = 2
    /\ capacity = Usize(4)

====
